---- MODULE Spec2Model ----
(***************************************************************************)
(* Model of the database-backed exchange provider, DatabaseExchange        *)
(* (src/src/exchanges/database.ts): convert, latestRates, the lazy model   *)
(* loader, the lazy cache setup and the read-through cache in front of     *)
(* the record fetch.                                                       *)
(*                                                                         *)
(* Every asynchronous call is a process that advances from one await to    *)
(* the next; the synchronous code between two awaits is one atomic step,   *)
(* as it is on the single-threaded JavaScript event loop.                  *)
(***************************************************************************)
EXTENDS Integers, Sequences, FiniteSets, TLC

(***************************************************************************)
(* JavaScript numbers.  A number is kept as a binary floating-point value  *)
(* with MantBits significant bits, rounded to nearest, ties to even, as    *)
(* IEEE-754 does with 53 bits.  A finite value is held as an integer count *)
(* of units of 2^-FracBits (the spacing of the smallest values).  The      *)
(* exponent has no upper limit: the inputs stay far from overflow.         *)
(***************************************************************************)
MantBits == 4
FracBits == 8

RECURSIVE Pow2(_)
Pow2(n) == IF n = 0 THEN 1 ELSE 2 * Pow2(n - 1)

Scale == Pow2(FracBits)

Num(n) == [k |-> "number", v |-> n]
Undefined == [k |-> "undefined", v |-> 0]
Null == [k |-> "null", v |-> 0]
NaN == [k |-> "NaN", v |-> 0]
Infinity(s) == [k |-> "Infinity", v |-> s]

IsNumber(x) == x.k = "number"
\* JavaScript truthiness of a number-or-missing value: undefined, null, NaN
\* and 0 are falsy.
Truthy(x) == (x.k = "number" /\ x.v # 0) \/ x.k = "Infinity"
\* x <= 0 and x > 0 on a number-or-missing value (a comparison with
\* undefined or NaN is false; null compares as 0).
LeqZero(x) == (x.k = "number" /\ x.v <= 0) \/ x.k = "null"
               \/ (x.k = "Infinity" /\ x.v < 0)
GtZero(x) == (x.k = "number" /\ x.v > 0) \/ (x.k = "Infinity" /\ x.v > 0)

Abs(n) == IF n < 0 THEN -n ELSE n
Sign(n) == IF n < 0 THEN -1 ELSE 1

\* The least k with num / (den * 2^k) < 2^MantBits.
RECURSIVE Shift(_, _, _)
Shift(num, den, k) ==
    IF num < den * Pow2(k) * Pow2(MantBits) THEN k ELSE Shift(num, den, k + 1)

\* num / den (num >= 0, den > 0, in units) rounded to MantBits significant
\* bits, to nearest, ties to even.
RoundQ(num, den) ==
    LET k == Shift(num, den, 0)
        d == den * Pow2(k)
        m == num \div d
        r == num % d
        up == (2 * r > d) \/ (2 * r = d /\ m % 2 = 1)
    IN  (IF up THEN m + 1 ELSE m) * Pow2(k)

\* a / b of two finite numbers, as the floating-point division does it.
FDiv(a, b) ==
    IF b = 0
    THEN IF a = 0 THEN NaN ELSE Infinity(Sign(a))
    ELSE Num(Sign(a) * Sign(b) * RoundQ(Abs(a) * Scale, Abs(b)))

\* a * b of two finite numbers.
FMul(a, b) == Num(Sign(a) * Sign(b) * RoundQ(Abs(a) * Abs(b), Scale))

\* The JavaScript operators on number values (the operands this provider
\* divides and multiplies are numbers, Infinity or NaN).
JsDiv(x, y) ==
    CASE x.k = "NaN" \/ y.k = "NaN" -> NaN
      [] x.k = "Infinity" /\ y.k = "Infinity" -> NaN
      [] x.k = "Infinity" -> Infinity(x.v * Sign(y.v))
      [] y.k = "Infinity" -> Num(0)
      [] OTHER -> FDiv(x.v, y.v)

JsMul(x, y) ==
    CASE x.k = "NaN" \/ y.k = "NaN" -> NaN
      [] x.k = "Infinity" /\ y.k = "Infinity" -> Infinity(x.v * y.v)
      [] x.k = "Infinity" -> IF y.v = 0 THEN NaN ELSE Infinity(x.v * Sign(y.v))
      [] y.k = "Infinity" -> IF x.v = 0 THEN NaN ELSE Infinity(y.v * Sign(x.v))
      [] OTHER -> FMul(x.v, y.v)

One == Num(Scale)

(***************************************************************************)
(* Currency codes, records and the inputs of the calls.                    *)
(***************************************************************************)
\* A missing code argument (undefined or the empty string: both are falsy).
NoCode == ""
Codes == {"USD", "EUR", "GBP"}
\* The codes in the order Array.prototype.sort() puts them.
CodeOrder == <<"EUR", "GBP", "USD">>
Rank(c) == CHOOSE i \in 1..Len(CodeOrder) : CodeOrder[i] = c

\* A record of the currency table, under the default column mapping.
Row(c, r, u) == [code |-> c, exchange_rate |-> r, updated_at |-> u]

\* The tables the provider is run against: the base record is present with
\* rate 1.0 or absent; the other two records are present with a positive, a
\* zero, a negative or a null rate, or absent.  updated_at 0 is "no value".
Opt(rows) == {<<>>} \cup {<<r>> : r \in rows}
Tables ==
    { u \o e \o g :
        u \in Opt({Row("USD", One, 1)}),
        e \in Opt({Row("EUR", r, 2) :
                     r \in {Num(3 * Scale), Num(0), Num(-3 * Scale), Null}}),
        g \in Opt({Row("GBP", r, 0) :
                     r \in {Num(5 * Scale), Num(0), Num(-5 * Scale)}}
                   \cup {Row("GBP", Num(5 * Scale), 1)}) }

Amounts == {Undefined, Num(0), Num(-3 * Scale), Num(3 * Scale)}
CodeArgs == Codes \cup {NoCode}
\* The codes filters latestRates is called with (<<>>: absent or empty).
CodeFilters == {<<>>, <<"EUR">>, <<"GBP", "USD">>}
\* The pairs getConvertRate is called with: two currencies, or one twice.
RatePairs == { ft \in Codes \X Codes : ft[1] # ft[2] \/ ft[1] = "EUR" }
\* The params of latestRates carry a filter under `codes`, under `symbols`,
\* or carry none.
FilterArgs ==
    { [codes |-> cs, symbols |-> <<>>] : cs \in CodeFilters } \cup
    { [codes |-> <<>>, symbols |-> sy] : sy \in CodeFilters }

\* The processes that make the calls (one call each at a time).
Procs == {"p1"}

VARIABLES
    table,            \* the currency table read by Model.query() (239, 262)
    cacheConfigured,  \* config.cache is a cache configuration (56-59, 124)
    hot,              \* 'hot' in import.meta (76, 95)
    base,             \* this.base (41)
    model,            \* this.model is set (19, 81)
    cache,            \* this.cache is set (22, 100, 130)
    cacheSetupPromise,\* this.cacheSetupPromise (23): "none" | "pending" | "resolved"
    store,            \* the cache backend: key -> <<rows>>, or <<>> for no entry
    calls,            \* the calls in flight, one per process
    constructed,      \* the constructor (29-46): "no" | "yes" | "threw"
    configModel,      \* this.configModel is a model loader (42, 52)
    now,              \* the clock read by Date.now()
    cleaned,          \* history: cleanup() has completed and no call has started since
    refreshed         \* history: a caller has got refreshCurrencyData() completed

vars == <<table, cacheConfigured, hot, base, model, cache, cacheSetupPromise,
          store, calls, constructed, configModel, now, cleaned, refreshed>>

\* What no step of a call changes: the table, the configuration, the clock.
frame == <<table, cacheConfigured, hot, base, constructed, configModel, now>>
\* The history variables.
hist == <<cleaned, refreshed>>

(***************************************************************************)
(* Cache keys.                                                             *)
(***************************************************************************)
defaultCacheKeyPrefix == "currency"

\* codes.sort() of a two-element array.
SortCodes(codes) ==
    IF Len(codes) = 2 /\ Rank(codes[1]) > Rank(codes[2])
    THEN <<codes[2], codes[1]>>
    ELSE codes

\* CacheKey made of the first of the codes only.
CacheKeyOfFirst(codes) == <<defaultCacheKeyPrefix, codes[1], codes[1]>>

\* `${prefix}_${codes.sort().join('_')}`, kept as the sequence of its parts.
CacheKey(codes) == <<defaultCacheKeyPrefix>> \o SortCodes(codes)
\* The key of the full record set: the prefix alone.
ListKey == <<defaultCacheKeyPrefix>>

Keys == {ListKey} \cup {CacheKey(<<a, b>>) : a \in Codes, b \in Codes}

(***************************************************************************)
(* Record accessors.                                                       *)
(***************************************************************************)
getCurrencyCode(record) == record.code
getCurrencyRate(record) == record.exchange_rate
getCurrencyUpdatedAt(record) == record.updated_at

\* currencies.find((c) => code(c) === wanted): the first match, or none.
RECURSIVE Find(_, _)
Find(rows, wanted) ==
    IF rows = <<>> THEN <<>>
    ELSE IF getCurrencyCode(Head(rows)) = wanted THEN <<Head(rows)>>
    ELSE Find(Tail(rows), wanted)

InCodes(codes, c) == \E i \in 1..Len(codes) : codes[i] = c

\* Model.query().select(columns).whereIn(code, codes)
WhereIn(rows, codes) == SelectSeq(rows, LAMBDA r : InCodes(codes, r.code))

(***************************************************************************)
(* Result envelopes.  An absent optional field is Undefined (a number) or  *)
(* NoError; error.info is kept as the parts of the message.  A timestamp   *)
(* is the time of the call (now) or a record's update time (at).           *)
(***************************************************************************)
NoError == [present |-> FALSE, info |-> <<>>, type |-> ""]
Error(info, type) == [present |-> TRUE, info |-> info, type |-> type]
TimeNow == [now |-> TRUE, at |-> 0]
TimeAt(u) == [now |-> FALSE, at |-> u]

\* The messages of the errors the dependencies throw.
ModelLoadMessage == <<"Model not found">>
QueryMessage == <<"query failed">>
CacheMessage == <<"cache backend unavailable">>
\* getModel, line 73: the error of a provider without a model loader.
ModelNotConfiguredMessage == <<"Currency model not configured">>

\* convert, lines 142-160: the envelope of an invalid input.
InvalidInput(amount, from, to, message) ==
    [ success |-> FALSE,
      query   |-> [from |-> from, to |-> to, amount |-> amount],
      info    |-> [timestamp |-> TimeNow, rate |-> Undefined],
      date    |-> TimeNow,
      result  |-> Undefined,
      error   |-> Error(<<message>>, "") ]

\* convert, lines 162-168: the envelope the call starts from.
InitialResult(amount, from, to) ==
    [ success |-> FALSE,
      query   |-> [from |-> from, to |-> to, amount |-> amount],
      info    |-> [timestamp |-> TimeNow, rate |-> Num(Scale)],
      date    |-> TimeNow,
      result  |-> amount,
      error   |-> NoError ]

\* convert, lines 219-231: the envelope of a caught exception.
DatabaseError(amount, from, to, message) ==
    [ success |-> FALSE,
      query   |-> [from |-> from, to |-> to, amount |-> amount],
      info    |-> [timestamp |-> TimeNow, rate |-> Undefined],
      date    |-> TimeNow,
      result  |-> Undefined,
      error   |-> Error(message, "database_error") ]

\* NotFoundCode naming `from` whichever record is missing.
NotFoundCodeAlwaysFrom(fromCurrency, from, to) == from

\* convert, line 185: the code the not-found message names.
NotFoundCode(fromCurrency, from, to) == IF fromCurrency = <<>> THEN from ELSE to

\* RatesInvalid without the check of fromRate.
RatesInvalidToOnly(fromRate, toRate) == ~Truthy(toRate)

\* convert, line 195: the guard on the two stored rates.
RatesInvalid(fromRate, toRate) == ~Truthy(fromRate) \/ ~Truthy(toRate)

\* convert, line 205: (1 / fromRate) * toRate.
ConvertRate(fromRate, toRate) == JsMul(JsDiv(Num(Scale), fromRate), toRate)

\* getConvertRate, line 414: the guard on the two stored rates.
RatesUsable(fromRate, toRate) ==
    Truthy(fromRate) /\ Truthy(toRate) /\ GtZero(fromRate) /\ GtZero(toRate)

\* getConvertRate, lines 404-418: the rate computed from the fetched records,
\* or undefined.
GetConvertRateFromRows(from, to, currencies) ==
    LET fromCurrency == Find(currencies, from)
        toCurrency == Find(currencies, to)
    IN  IF fromCurrency = <<>> \/ toCurrency = <<>>
        THEN Undefined
        ELSE
          LET fromRate == getCurrencyRate(fromCurrency[1])
              toRate == getCurrencyRate(toCurrency[1])
          IN  IF RatesUsable(fromRate, toRate)
              THEN ConvertRate(fromRate, toRate)
              ELSE Undefined

\* convert, lines 178-218: the envelope computed from the fetched records.
ConvertFromRows(amount, from, to, currencies) ==
    LET result == InitialResult(amount, from, to)
        fromCurrency == Find(currencies, from)
        toCurrency == Find(currencies, to)
    IN  IF fromCurrency = <<>> \/ toCurrency = <<>>
        THEN [result EXCEPT !.error =
                Error(<<"Currency not found: ",
                        NotFoundCode(fromCurrency, from, to)>>, "")]
        ELSE
          LET fromRate == getCurrencyRate(fromCurrency[1])
              toRate == getCurrencyRate(toCurrency[1])
              updatedAt ==
                  IF getCurrencyUpdatedAt(fromCurrency[1]) # 0
                  THEN getCurrencyUpdatedAt(fromCurrency[1])
                  ELSE getCurrencyUpdatedAt(toCurrency[1])
          IN  IF RatesInvalid(fromRate, toRate)
              THEN [result EXCEPT !.error =
                      Error(<<"Invalid exchange rates found in database">>, "")]
              ELSE
                LET convertRate == ConvertRate(fromRate, toRate)
                    convertAmount == JsMul(amount, convertRate)
                    stamp == IF updatedAt # 0 THEN TimeAt(updatedAt) ELSE TimeNow
                IN  [ success |-> TRUE,
                      query   |-> result.query,
                      info    |-> [timestamp |-> stamp, rate |-> convertRate],
                      date    |-> stamp,
                      result  |-> convertAmount,
                      error   |-> NoError ]

\* ConvertEarly without the same-currency shortcut of lines 171-174.
ConvertEarlyNoShortcut(amount, from, to) ==
    IF ~Truthy(amount) \/ LeqZero(amount)
    THEN <<InvalidInput(amount, from, to,
                        "Invalid amount: must be greater than 0")>>
    ELSE IF from = NoCode \/ to = NoCode
    THEN <<InvalidInput(amount, from, to,
                        "Invalid currency codes: from and to are required")>>
    ELSE <<>>

\* ConvertEarly with the amount check reduced to !amount.
ConvertEarlyNoSignCheck(amount, from, to) ==
    IF ~Truthy(amount)
    THEN <<InvalidInput(amount, from, to,
                        "Invalid amount: must be greater than 0")>>
    ELSE IF from = NoCode \/ to = NoCode
    THEN <<InvalidInput(amount, from, to,
                        "Invalid currency codes: from and to are required")>>
    ELSE IF from = to
    THEN <<[InitialResult(amount, from, to) EXCEPT !.success = TRUE]>>
    ELSE <<>>

\* convert, lines 139-174: the part that runs before any await.  Returns
\* <<>> when the call goes on to fetch the records.
ConvertEarly(amount, from, to) ==
    IF ~Truthy(amount) \/ LeqZero(amount)
    THEN <<InvalidInput(amount, from, to,
                        "Invalid amount: must be greater than 0")>>
    ELSE IF from = NoCode \/ to = NoCode
    THEN <<InvalidInput(amount, from, to,
                        "Invalid currency codes: from and to are required")>>
    ELSE IF from = to
    THEN <<[InitialResult(amount, from, to) EXCEPT !.success = TRUE]>>
    ELSE <<>>

(***************************************************************************)
(* latestRates, lines 301-375.                                             *)
(***************************************************************************)
EmptyRates == [c \in {} |-> Undefined]
Put(f, key, val) == [c \in DOMAIN f \cup {key} |-> IF c = key THEN val ELSE f[c]]

\* Later keeping the update time of the last record that has one.
LaterLast(updatedAt, latest) == IF updatedAt # 0 THEN updatedAt ELSE latest

\* Lines 341-346: the latest update time seen, after a record (0: none).
Later(updatedAt, latest) ==
    IF updatedAt # 0 /\ (latest = 0 \/ updatedAt > latest)
    THEN updatedAt ELSE latest

\* Lines 327-348: the loop over the records; acc is the rates map and the
\* latest update time seen (0: none).
RECURSIVE RatesLoop(_, _, _)
RatesLoop(rows, currencyCodes, acc) ==
    IF rows = <<>> THEN acc
    ELSE
      LET record == Head(rows)
          code == getCurrencyCode(record)
          rate == getCurrencyRate(record)
          updatedAt == getCurrencyUpdatedAt(record)
          skip == code = NoCode \/ rate.k = "undefined" \/ rate.k = "null"
          included == currencyCodes = <<>> \/ InCodes(currencyCodes, code)
          next ==
              IF skip \/ ~included THEN acc
              ELSE [ rates  |-> Put(acc.rates, code, rate),
                     latest |-> Later(updatedAt, acc.latest) ]
      IN  RatesLoop(Tail(rows), currencyCodes, next)

\* InitialRates with the configured base whatever the call asks for.
InitialRatesConfiguredBase(baseArg) ==
    [ success   |-> FALSE,
      timestamp |-> TimeNow,
      date      |-> TimeNow,
      base      |-> base,
      rates     |-> EmptyRates,
      error     |-> NoError ]

\* Lines 304-312: the envelope the call starts from.
InitialRates(baseArg) ==
    [ success   |-> FALSE,
      timestamp |-> TimeNow,
      date      |-> TimeNow,
      base      |-> IF baseArg = NoCode THEN base ELSE baseArg,
      rates     |-> EmptyRates,
      error     |-> NoError ]

\* RatesFound whatever the rates map holds.
RatesFoundAlways(rates) == TRUE

\* Line 356: Object.keys(result.rates).length > 0.
RatesFound(rates) == DOMAIN rates # {}

\* Lines 317-365: the envelope computed from the fetched records.
LatestFromRows(baseArg, currencyCodes, currencies) ==
    LET result == InitialRates(baseArg)
    IN  IF currencies = <<>>
        THEN [result EXCEPT !.error =
                Error(<<"No currencies found in database">>, "database_error")]
        ELSE
          LET acc == RatesLoop(currencies, currencyCodes,
                               [rates |-> EmptyRates, latest |-> 0])
              stamp == IF acc.latest # 0 THEN TimeAt(acc.latest) ELSE TimeNow
              ok == RatesFound(acc.rates)
          IN  [ success   |-> ok,
                timestamp |-> stamp,
                date      |-> stamp,
                base      |-> result.base,
                rates     |-> acc.rates,
                error     |->
                    IF ok THEN NoError
                    ELSE IF Len(currencyCodes) > 0
                    THEN Error(<<"No matching currencies found for codes: ">>
                               \o currencyCodes, "database_error")
                    ELSE Error(<<"No valid currencies found in database">>,
                               "database_error") ]

\* Lines 366-372: the envelope of a caught exception.
RatesError(baseArg, message) ==
    [InitialRates(baseArg) EXCEPT !.error = Error(message, "database_error")]

(***************************************************************************)
(* The calls.  A call is at one of: idle, awaitSetup (awaiting             *)
(* #ensureCacheSetup), awaitModel (awaiting getModel), awaitQuery          *)
(* (awaiting the query), awaitCache (awaiting cache.getOrSet), done (the   *)
(* promise of the call is resolved with ret).  touched is what the call    *)
(* has used of its dependencies so far, raised the message of the          *)
(* exception a dependency threw into it.                                   *)
(***************************************************************************)
NoRet == [none |-> TRUE]
\* The promise of a Promise<void> call is resolved; the promise of a call is
\* rejected with an error of the message.
Void == [void |-> TRUE]
Thrown(message) == [thrown |-> message]
Idle ==
    [ op |-> "none", pc |-> "idle", amount |-> Undefined, from |-> NoCode,
      to |-> NoCode, baseArg |-> NoCode, codes |-> <<>>, symbols |-> <<>>,
      useCache |-> TRUE, afterRefresh |-> FALSE, afterCleanup |-> FALSE,
      startTime |-> 0,
      loader |-> FALSE, raised |-> <<>>, ret |-> NoRet, touched |-> {} ]

Init ==
    /\ table \in Tables
    /\ cacheConfigured \in BOOLEAN
    /\ hot \in BOOLEAN
    /\ base = "USD"
    /\ model = FALSE
    /\ cache = FALSE
    /\ cacheSetupPromise = "none"
    /\ store = [k \in Keys |-> <<>>]
    /\ calls = [p \in Procs |-> Idle]
    /\ constructed = "yes"
    /\ configModel = TRUE
    /\ now = 0
    /\ cleaned = FALSE
    /\ refreshed = FALSE

\* The records the call fetches: the two codes of a convert (line 177), the
\* whole list for latestRates (line 315).
FetchCodes(c) ==
    IF c.op \in {"latestRates", "refreshCurrencyData"}
    THEN <<>> ELSE <<c.from, c.to>>
FetchKey(c) == IF FetchCodes(c) = <<>> THEN ListKey ELSE CacheKey(FetchCodes(c))
\* What the query of the call returns from the table.
RunQuery(c) ==
    IF FetchCodes(c) = <<>> THEN table ELSE WhereIn(table, FetchCodes(c))

\* The envelope of the call, from the fetched records.
Finish(c, rows) ==
    IF c.op = "convert"
    THEN ConvertFromRows(c.amount, c.from, c.to, rows)
    ELSE IF c.op = "getConvertRate"
    THEN GetConvertRateFromRows(c.from, c.to, rows)
    ELSE IF c.op = "refreshCurrencyData"
    THEN Void
    ELSE LatestFromRows(c.baseArg, c.codes, rows)

\* Caught with getConvertRate answering a failure envelope as well.
CaughtEnvelope(c, message) ==
    IF c.op = "convert"
    THEN DatabaseError(c.amount, c.from, c.to, message)
    ELSE RatesError(c.baseArg, message)

\* Caught with the fallback message in place of error.message.
CaughtUnknown(c, message) ==
    IF c.op = "convert"
    THEN DatabaseError(c.amount, c.from, c.to, <<"Unknown database error">>)
    ELSE IF c.op = "getConvertRate"
    THEN Undefined
    ELSE RatesError(c.baseArg, <<"Unknown database error">>)

\* The envelope of the call, from an exception caught in it;
\* refreshCurrencyData (lines 392-396) catches nothing.
Caught(c, message) ==
    IF c.op = "convert"
    THEN DatabaseError(c.amount, c.from, c.to, message)
    ELSE IF c.op = "getConvertRate"
    THEN Undefined
    ELSE IF c.op = "refreshCurrencyData"
    THEN Thrown(message)
    ELSE RatesError(c.baseArg, message)

Done(c, ret) == [c EXCEPT !.pc = "done", !.ret = ret]

\* A dependency throws into the call: the catch block of the call (lines
\* 219-231, 366-372) makes the envelope it returns.
Raise(c, message) ==
    [c EXCEPT !.pc = "done", !.raised = <<message>>, !.ret = Caught(c, message)]

\* SetupRuns with a retry after a setup that left no cache handle.
SetupRunsAfterFailure ==
    cacheSetupPromise = "none" \/ (cacheSetupPromise = "resolved" /\ ~cache)

\* SetupRuns without the test of the promise already there.
SetupRunsAlways == TRUE

\* #ensureCacheSetup, lines 108-110: no setup promise is there yet, so
\* #setupCache is run.
SetupRuns == cacheSetupPromise = "none"

\* #ensureCacheSetup, lines 107-118, with #setupCache (123-134) and
\* getCacheService (89-102) up to their first await: the state of
\* cacheSetupPromise when the caller starts to await it.
EnsureCacheSetup ==
    IF ~SetupRuns THEN cacheSetupPromise
    ELSE IF ~cacheConfigured THEN "resolved"
    ELSE IF cache /\ ~hot THEN "resolved"
    ELSE "pending"

\* The call of #ensureCacheSetup reaches `await cacheConfig.service()`
\* (line 99): the cache service loader is invoked.
ServiceLoaderInvoked == SetupRuns /\ cacheConfigured /\ ~(cache /\ ~hot)

\* BypassCache without the test of the flag.
BypassCacheIgnoreFlag(useCache) == ~cache \/ ~cacheConfigured

\* BypassCache without the check of this.cache.
BypassCacheNoHandleCheck(useCache) == ~useCache \/ ~cacheConfigured

\* Lines 241 and 266: the read goes to the query, not through the cache.
BypassCache(useCache) == ~useCache \/ ~cache \/ ~cacheConfigured

\* The call reaches its first await, of #ensureCacheSetup (lines 236, 259);
\* it has invoked the cache service loader if the setup ran up to line 99.
AwaitSetup(c) ==
    [c EXCEPT !.pc = "awaitSetup", !.afterRefresh = refreshed,
              !.afterCleanup = cleaned,
              !.touched = @ \cup {"cacheSetup"} \cup
                  (IF ServiceLoaderInvoked THEN {"serviceLoader"} ELSE {})]

\* convert is called (lines 139-177, then 253-259).
CallConvert(p, amount, from, to) ==
    /\ constructed = "yes"
    /\ calls[p].pc = "idle"
    /\ LET c == [Idle EXCEPT !.op = "convert", !.amount = amount,
                             !.from = from, !.to = to]
           early == ConvertEarly(amount, from, to)
       IN  IF early # <<>>
           THEN /\ calls' = [calls EXCEPT ![p] = Done(c, early[1])]
                /\ UNCHANGED <<cacheSetupPromise, cleaned>>
           ELSE /\ calls' = [calls EXCEPT ![p] = AwaitSetup(c)]
                /\ cacheSetupPromise' = EnsureCacheSetup
                /\ cleaned' = FALSE
    /\ UNCHANGED <<frame, refreshed, model, cache, store>>

\* latestRates is called (lines 301-315, then 234-236).
CallLatestRates(p, baseArg, codes, symbols, useCache) ==
    /\ constructed = "yes"
    /\ calls[p].pc = "idle"
    /\ calls' = [calls EXCEPT ![p] =
           AwaitSetup([Idle EXCEPT !.op = "latestRates", !.baseArg = baseArg,
                                   !.codes = codes, !.symbols = symbols,
                                   !.useCache = useCache])]
    /\ cacheSetupPromise' = EnsureCacheSetup
    /\ cleaned' = FALSE
    /\ UNCHANGED <<frame, refreshed, model, cache, store>>

\* getConvertRate is called (lines 401-403, then 253-259).
CallGetConvertRate(p, from, to) ==
    /\ constructed = "yes"
    /\ calls[p].pc = "idle"
    /\ calls' = [calls EXCEPT ![p] =
           AwaitSetup([Idle EXCEPT !.op = "getConvertRate",
                                   !.from = from, !.to = to])]
    /\ cacheSetupPromise' = EnsureCacheSetup
    /\ cleaned' = FALSE
    /\ UNCHANGED <<frame, refreshed, model, cache, store>>

\* The cache service loader resolves (lines 99-101, 130).
CacheServiceResolves ==
    /\ cacheSetupPromise = "pending"
    /\ cache' = TRUE
    /\ cacheSetupPromise' = "resolved"
    /\ UNCHANGED <<frame, hist, model, store, calls>>

\* The cache service loader rejects with an Error: #setupCache catches it
\* and warns with its message (lines 131-133), so the setup promise resolves
\* with this.cache unset and the handler of lines 112-116 does not run.
CacheServiceRejects ==
    /\ cacheSetupPromise = "pending"
    /\ cacheSetupPromise' = "resolved"
    /\ UNCHANGED <<frame, hist, model, cache, store, calls>>

\* The setup promise a call awaits is resolved (setupSettled: it was
\* resolved and cleanup has cleared this.cacheSetupPromise since): the call
\* goes on to getModel (lines 71-80), which throws without a configured
\* loader, returns the memoized model or invokes the loader.
AfterSetup(p) ==
    /\ \/ calls[p].pc = "awaitSetup" /\ cacheSetupPromise = "resolved"
       \/ calls[p].pc = "setupSettled"
    /\ LET invoke == ~(model /\ ~hot)
       IN  calls' = [calls EXCEPT ![p] =
               IF ~configModel
               THEN Raise([@ EXCEPT !.touched = @ \cup {"getModel"}],
                          ModelNotConfiguredMessage)
               ELSE
               [@ EXCEPT !.pc = "awaitModel", !.loader = invoke,
                         !.touched = @ \cup {"getModel"}
                                       \cup (IF invoke THEN {"modelLoader"} ELSE {})]]
    /\ UNCHANGED <<frame, hist, model, cache,
                   cacheSetupPromise, store>>

\* Lines 239-247 and 262-273: with the model in hand the call awaits the
\* query, or cache.getOrSet.
StartFetch(c) ==
    IF BypassCache(c.useCache)
    THEN [c EXCEPT !.pc = "awaitQuery", !.touched = @ \cup {"query"}]
    ELSE [c EXCEPT !.pc = "awaitCache", !.touched = @ \cup {"cacheRead"}]

\* getModel returns the memoized model (lines 76-78).
ModelMemoized(p) ==
    /\ calls[p].pc = "awaitModel"
    /\ ~calls[p].loader
    /\ calls' = [calls EXCEPT ![p] = StartFetch(@)]
    /\ UNCHANGED <<frame, hist, model, cache,
                   cacheSetupPromise, store>>

\* The model loader resolves (lines 80-82).
ModelLoaderResolves(p) ==
    /\ calls[p].pc = "awaitModel"
    /\ calls[p].loader
    /\ model' = TRUE
    /\ calls' = [calls EXCEPT ![p] = StartFetch(@)]
    /\ UNCHANGED <<frame, hist, cache,
                   cacheSetupPromise, store>>

\* ModelLoaderRejects keeping the failed load as the memoized model.
ModelLoaderRejectsMemoized(p) ==
    /\ calls[p].pc = "awaitModel"
    /\ calls[p].loader
    /\ model' = TRUE
    /\ calls' = [calls EXCEPT ![p] = Raise(@, ModelLoadMessage)]
    /\ UNCHANGED <<frame, hist, cache,
                   cacheSetupPromise, store>>

\* The model loader rejects: the exception reaches the catch of the call.
ModelLoaderRejects(p) ==
    /\ calls[p].pc = "awaitModel"
    /\ calls[p].loader
    /\ calls' = [calls EXCEPT ![p] = Raise(@, ModelLoadMessage)]
    /\ UNCHANGED <<frame, hist, model, cache,
                   cacheSetupPromise, store>>

\* The query returns its records.
QueryResolves(p) ==
    /\ calls[p].pc = "awaitQuery"
    /\ calls' = [calls EXCEPT ![p] = Done(@, Finish(@, RunQuery(@)))]
    /\ UNCHANGED <<frame, hist, model, cache,
                   cacheSetupPromise, store>>

\* The query fails.
QueryFails(p) ==
    /\ calls[p].pc = "awaitQuery"
    /\ calls' = [calls EXCEPT ![p] = Raise(@, QueryMessage)]
    /\ UNCHANGED <<frame, hist, model, cache,
                   cacheSetupPromise, store>>

\* cache.getOrSet finds an unexpired entry.
CacheHit(p) ==
    /\ calls[p].pc = "awaitCache"
    /\ store[FetchKey(calls[p])] # <<>>
    /\ calls' = [calls EXCEPT ![p] = Done(@, Finish(@, store[FetchKey(@)][1]))]
    /\ UNCHANGED <<frame, hist, model, cache,
                   cacheSetupPromise, store>>

\* cache.getOrSet finds no entry: it runs the factory (the query), stores
\* the records and returns them.
CacheMiss(p) ==
    /\ calls[p].pc = "awaitCache"
    /\ store[FetchKey(calls[p])] = <<>>
    /\ store' = [store EXCEPT ![FetchKey(calls[p])] = <<RunQuery(calls[p])>>]
    /\ calls' = [calls EXCEPT ![p] =
           Done([@ EXCEPT !.touched = @ \cup {"query"}], Finish(@, RunQuery(@)))]
    /\ UNCHANGED <<frame, hist, model, cache,
                   cacheSetupPromise>>

\* cache.getOrSet finds no entry and the factory's query fails.
CacheMissQueryFails(p) ==
    /\ calls[p].pc = "awaitCache"
    /\ store[FetchKey(calls[p])] = <<>>
    /\ calls' = [calls EXCEPT ![p] =
           Raise([@ EXCEPT !.touched = @ \cup {"query"}], QueryMessage)]
    /\ UNCHANGED <<frame, hist, model, cache,
                   cacheSetupPromise, store>>

\* The cache backend throws in cache.getOrSet: nothing in
\* #currencyList / #getCurrenciesByCodes catches it (lines 247, 273), so it
\* reaches the catch of the call.
CacheThrows(p) ==
    /\ calls[p].pc = "awaitCache"
    /\ calls' = [calls EXCEPT ![p] = Raise(@, CacheMessage)]
    /\ UNCHANGED <<frame, hist, model, cache,
                   cacheSetupPromise, store>>

\* A cache entry reaches its time to live.
Expire(k) ==
    /\ store[k] # <<>>
    /\ store' = [store EXCEPT ![k] = <<>>]
    /\ UNCHANGED <<frame, hist, model, cache,
                   cacheSetupPromise, calls>>

\* clearCache is called (lines 380-386): it returns at once without a cache
\* handle, else it awaits the delete of the key of the full record set.
CallClearCache(p) ==
    /\ constructed = "yes"
    /\ calls[p].pc = "idle"
    /\ LET c == [Idle EXCEPT !.op = "clearCache"]
       IN  calls' = [calls EXCEPT ![p] =
               IF ~cache \/ ~cacheConfigured
               THEN Done(c, Void)
               ELSE [c EXCEPT !.pc = "awaitDelete", !.touched = {"cacheDelete"}]]
    /\ UNCHANGED <<frame, hist, model, cache, cacheSetupPromise, store>>

\* refreshCurrencyData is called (line 393, then 380-386).
CallRefreshCurrencyData(p) ==
    /\ constructed = "yes"
    /\ calls[p].pc = "idle"
    /\ LET c == [Idle EXCEPT !.op = "refreshCurrencyData"]
       IN  calls' = [calls EXCEPT ![p] =
               IF ~cache \/ ~cacheConfigured
               THEN [c EXCEPT !.pc = "cleared"]
               ELSE [c EXCEPT !.pc = "awaitDelete", !.touched = {"cacheDelete"}]]
    /\ UNCHANGED <<frame, hist, model, cache, cacheSetupPromise, store>>

\* CacheDeleteResolves deleting the records of the table, not the entry.
CacheDeleteDropsRecords(p) ==
    /\ calls[p].pc = "awaitDelete"
    /\ table' = <<>>
    /\ calls' = [calls EXCEPT ![p] =
           IF @.op = "clearCache" THEN Done(@, Void) ELSE [@ EXCEPT !.pc = "cleared"]]
    /\ UNCHANGED <<cacheConfigured, hot, base, constructed, configModel, now,
                   hist, model, cache, cacheSetupPromise, store>>

\* cache.delete removes the entry of the full record set (line 386): it is
\* the only key clearCache deletes.
CacheDeleteResolves(p) ==
    /\ calls[p].pc = "awaitDelete"
    /\ store' = [store EXCEPT ![ListKey] = <<>>]
    /\ calls' = [calls EXCEPT ![p] =
           IF @.op = "clearCache" THEN Done(@, Void) ELSE [@ EXCEPT !.pc = "cleared"]]
    /\ UNCHANGED <<frame, hist, model, cache, cacheSetupPromise>>

\* cache.delete rejects: neither clearCache nor refreshCurrencyData catches.
CacheDeleteRejects(p) ==
    /\ calls[p].pc = "awaitDelete"
    /\ calls' = [calls EXCEPT ![p] =
           [@ EXCEPT !.pc = "done", !.raised = <<CacheMessage>>,
                     !.ret = Thrown(CacheMessage)]]
    /\ UNCHANGED <<frame, hist, model, cache, cacheSetupPromise, store>>

\* refreshCurrencyData, line 395: after clearCache it reads the full record
\* set through the cache, #currencyList(true) (lines 234-236).
RefreshFetch(p) ==
    /\ calls[p].pc = "cleared"
    /\ calls' = [calls EXCEPT ![p] = AwaitSetup(@)]
    /\ cacheSetupPromise' = EnsureCacheSetup
    /\ cleaned' = FALSE
    /\ UNCHANGED <<frame, refreshed, model, cache, store>>

\* cleanup is called (lines 427-438): without a setup promise it clears the
\* cache handle and the model at once, else it awaits the promise.
CallCleanup(p) ==
    /\ constructed = "yes"
    /\ calls[p].pc = "idle"
    /\ LET c == [Idle EXCEPT !.op = "cleanup"]
       IN  IF cacheSetupPromise = "none"
           THEN /\ calls' = [calls EXCEPT ![p] = Done(c, Void)]
                /\ cache' = FALSE
                /\ model' = FALSE
                /\ cleaned' = TRUE
           ELSE /\ calls' = [calls EXCEPT ![p] = [c EXCEPT !.pc = "awaitCleanup"]]
                /\ UNCHANGED <<cache, model, cleaned>>
    /\ UNCHANGED <<frame, refreshed, cacheSetupPromise, store>>

\* The setup promise cleanup awaits is resolved (lines 430-438): it clears
\* the promise, the cache handle and the model.  The calls that await the
\* cleared promise have it resolved.
CleanupCompletes(p) ==
    /\ calls[p].pc = "awaitCleanup"
    /\ cacheSetupPromise = "resolved"
    /\ cacheSetupPromise' = "none"
    /\ cache' = FALSE
    /\ model' = FALSE
    /\ cleaned' = TRUE
    /\ calls' = [q \in DOMAIN calls |->
           IF q = p THEN Done(calls[q], Void)
           ELSE IF calls[q].pc = "awaitSetup"
           THEN [calls[q] EXCEPT !.pc = "setupSettled"]
           ELSE calls[q]]
    /\ UNCHANGED <<frame, refreshed, store>>

\* The caller takes the result of a finished call.
Return(p) ==
    /\ calls[p].pc = "done"
    /\ calls' = [calls EXCEPT ![p] = Idle]
    /\ refreshed' =
           (refreshed \/ (calls[p].op = "refreshCurrencyData" /\ calls[p].ret = Void))
    /\ UNCHANGED <<frame, cleaned, model, cache,
                   cacheSetupPromise, store>>

Next ==
    \/ \E p \in DOMAIN calls, a \in Amounts, f \in CodeArgs, t \in CodeArgs :
          CallConvert(p, a, f, t)
    \/ \E p \in DOMAIN calls, b \in {NoCode, "EUR"}, f \in FilterArgs, u \in BOOLEAN :
          CallLatestRates(p, b, f.codes, f.symbols, u)
    \/ \E p \in DOMAIN calls, ft \in RatePairs :
          CallGetConvertRate(p, ft[1], ft[2])
    \/ CacheServiceResolves
    \/ CacheServiceRejects
    \/ \E p \in DOMAIN calls : AfterSetup(p)
    \/ \E p \in DOMAIN calls : ModelMemoized(p)
    \/ \E p \in DOMAIN calls : ModelLoaderResolves(p)
    \/ \E p \in DOMAIN calls : ModelLoaderRejects(p)
    \/ \E p \in DOMAIN calls : QueryResolves(p)
    \/ \E p \in DOMAIN calls : QueryFails(p)
    \/ \E p \in DOMAIN calls : CacheHit(p)
    \/ \E p \in DOMAIN calls : CacheMiss(p)
    \/ \E p \in DOMAIN calls : CacheMissQueryFails(p)
    \/ \E p \in DOMAIN calls : CacheThrows(p)
    \/ \E k \in Keys : Expire(k)
    \/ \E p \in DOMAIN calls : Return(p)

Spec == Init /\ [][Next]_vars

(***************************************************************************)
(* Concurrent calls: two callers make one call each on a freshly           *)
(* constructed provider, in any interleaving of their steps.               *)
(***************************************************************************)
ProcsConc == {"p1", "p2"}
\* The tables with a record of every code, each with a positive rate.
TablesConc ==
    { t \in Tables :
        /\ Len(t) = Len(CodeOrder)
        /\ \A i \in DOMAIN t : GtZero(getCurrencyRate(t[i])) }

InitConc ==
    /\ table \in TablesConc
    /\ cacheConfigured \in BOOLEAN
    /\ hot \in BOOLEAN
    /\ base = "USD"
    /\ model = FALSE
    /\ cache = FALSE
    /\ cacheSetupPromise = "none"
    /\ store = [k \in Keys |-> <<>>]
    /\ calls = [p \in ProcsConc |-> Idle]
    /\ constructed = "yes"
    /\ configModel = TRUE
    /\ now = 0
    /\ cleaned = FALSE
    /\ refreshed = FALSE

NextConc ==
    \/ \E p \in DOMAIN calls, t \in {"GBP", "USD"} :
          CallConvert(p, Num(3 * Scale), "EUR", t)
    \/ \E p \in DOMAIN calls, u \in BOOLEAN :
          CallLatestRates(p, NoCode, <<>>, <<>>, u)
    \/ \E p \in DOMAIN calls : CallGetConvertRate(p, "EUR", "GBP")
    \/ CacheServiceResolves
    \/ CacheServiceRejects
    \/ \E p \in DOMAIN calls : AfterSetup(p)
    \/ \E p \in DOMAIN calls : ModelMemoized(p)
    \/ \E p \in DOMAIN calls : ModelLoaderResolves(p)
    \/ \E p \in DOMAIN calls : ModelLoaderRejects(p)
    \/ \E p \in DOMAIN calls : QueryResolves(p)
    \/ \E p \in DOMAIN calls : QueryFails(p)
    \/ \E p \in DOMAIN calls : CacheHit(p)
    \/ \E p \in DOMAIN calls : CacheMiss(p)
    \/ \E p \in DOMAIN calls : CacheMissQueryFails(p)
    \/ \E p \in DOMAIN calls : CacheThrows(p)
    \/ \E k \in Keys : Expire(k)

SpecConc == InitConc /\ [][NextConc]_vars

(***************************************************************************)
(* The lifecycle: two callers make calls of every operation, one after     *)
(* another and interleaved, on a provider whose cache backend may hold     *)
(* entries written before a change of the table.                           *)
(***************************************************************************)
ProcsLife == {"p1", "p2"}
\* The records of the full record set as they were before the change.
StaleRows == <<Row("USD", One, 1), Row("EUR", Num(5 * Scale), 1)>>
\* The cache backend at construction: empty, or holding the entry of the
\* full record set or the entry of a pair, written before the change.
StoresLife ==
    { [k \in Keys |-> <<>>],
      [k \in Keys |-> IF k = ListKey THEN <<StaleRows>> ELSE <<>>],
      [k \in Keys |-> IF k = CacheKey(<<"USD", "EUR">>)
                      THEN <<WhereIn(StaleRows, <<"USD", "EUR">>)>> ELSE <<>>] }

\* One table: a record of every code with a positive rate.
TablesLife == { t \in TablesConc : \A i \in DOMAIN t : getCurrencyUpdatedAt(t[i]) # 0 }

InitLife ==
    /\ table \in TablesLife
    /\ cacheConfigured \in BOOLEAN
    /\ hot = FALSE
    /\ base = "USD"
    /\ model = FALSE
    /\ cache = FALSE
    /\ cacheSetupPromise = "none"
    /\ store \in StoresLife
    /\ calls = [p \in ProcsLife |-> Idle]
    /\ constructed = "yes"
    /\ configModel = TRUE
    /\ now = 0
    /\ cleaned = FALSE
    /\ refreshed = FALSE

\* No cleanup is in flight.
NoCleanupInFlight ==
    \A q \in DOMAIN calls : ~(calls[q].op = "cleanup" /\ calls[q].pc # "done")

NextLife ==
    \/ \E p \in DOMAIN calls : CallConvert(p, Num(3 * Scale), "USD", "EUR")
    \/ \E p \in DOMAIN calls : CallLatestRates(p, NoCode, <<>>, <<>>, TRUE)
    \/ \E p \in DOMAIN calls : CallGetConvertRate(p, "USD", "EUR")
    \/ \E p \in DOMAIN calls : CallClearCache(p)
    \/ \E p \in DOMAIN calls : CallRefreshCurrencyData(p)
    \/ \E p \in DOMAIN calls : NoCleanupInFlight /\ CallCleanup(p)
    \/ CacheServiceResolves
    \/ CacheServiceRejects
    \/ \E p \in DOMAIN calls : AfterSetup(p)
    \/ \E p \in DOMAIN calls : ModelMemoized(p)
    \/ \E p \in DOMAIN calls : ModelLoaderResolves(p)
    \/ \E p \in DOMAIN calls : ModelLoaderRejects(p)
    \/ \E p \in DOMAIN calls : QueryResolves(p)
    \/ \E p \in DOMAIN calls : QueryFails(p)
    \/ \E p \in DOMAIN calls : CacheHit(p)
    \/ \E p \in DOMAIN calls : CacheMiss(p)
    \/ \E p \in DOMAIN calls : CacheMissQueryFails(p)
    \/ \E p \in DOMAIN calls : CacheThrows(p)
    \/ \E p \in DOMAIN calls : CacheDeleteResolves(p)
    \/ \E p \in DOMAIN calls : CacheDeleteRejects(p)
    \/ \E p \in DOMAIN calls : RefreshFetch(p)
    \/ \E p \in DOMAIN calls : CleanupCompletes(p)
    \/ \E p \in DOMAIN calls : Return(p)

SpecLife == InitLife /\ [][NextLife]_vars

(***************************************************************************)
(* Construction: a provider is constructed from a configuration, by the    *)
(* constructor of DatabaseExchange or by the database() helper, and a      *)
(* caller makes calls on the instance the constructor returned.            *)
(***************************************************************************)
\* The configurations: `model` is a loader or absent; `cache` is absent,
\* false, a configuration with a service loader or one without; `base` is a
\* code or absent.
Configs ==
    [ model : BOOLEAN,
      cache : {"absent", "false", "service", "noService"},
      base  : {NoCode, "USD", "EUR"} ]

\* ValidateConfig without the test of the model loader.
ValidateConfigCacheOnly(config) ==
    IF config.cache = "noService"
    THEN <<"Cache service configuration is required when cache is enabled">>
    ELSE <<>>

\* #validateConfig, lines 51-59: the message of the error it throws, or <<>>.
ValidateConfig(config) ==
    IF ~config.model
    THEN <<"Currency model configuration is required">>
    ELSE IF config.cache = "noService"
    THEN <<"Cache service configuration is required when cache is enabled">>
    ELSE <<>>

\* config.ts, lines 18-21: the test of the database() helper.
HelperValidate(config) ==
    IF ~config.model THEN <<"Database provider requires a model">> ELSE <<>>

\* The constructor of DatabaseExchange (lines 29-46): it assigns the fields
\* from the configuration and validates; when #validateConfig throws, no
\* instance is returned.
Construct(config) ==
    /\ constructed = "no"
    /\ base' = IF config.base = NoCode THEN "USD" ELSE config.base
    /\ configModel' = config.model
    /\ cacheConfigured' = (config.cache \in {"service", "noService"})
    /\ constructed' = IF ValidateConfig(config) = <<>> THEN "yes" ELSE "threw"
    /\ UNCHANGED <<table, hot, now, hist, model, cache, cacheSetupPromise,
                   store, calls>>

\* The database() helper (config.ts, lines 17-35): it throws without a
\* model loader, else it constructs a provider with the base defaulted.
ConstructByHelper(config) ==
    /\ constructed = "no"
    /\ base' = IF config.base = NoCode THEN "USD" ELSE config.base
    /\ configModel' = config.model
    /\ cacheConfigured' = (config.cache \in {"service", "noService"})
    /\ constructed' = IF HelperValidate(config) = <<>> THEN "helper" ELSE "threw"
    /\ UNCHANGED <<table, hot, now, hist, model, cache, cacheSetupPromise,
                   store, calls>>

InitCtor ==
    /\ table \in TablesLife
    /\ hot \in BOOLEAN
    /\ constructed = "no"
    /\ base = NoCode
    /\ configModel = FALSE
    /\ cacheConfigured = FALSE
    /\ model = FALSE
    /\ cache = FALSE
    /\ cacheSetupPromise = "none"
    /\ store = [k \in Keys |-> <<>>]
    /\ calls = [p \in Procs |-> Idle]
    /\ now = 0
    /\ cleaned = FALSE
    /\ refreshed = FALSE

NextCtor ==
    \/ \E config \in Configs : Construct(config)
    \/ \E config \in Configs : ConstructByHelper(config)
    \/ \E p \in DOMAIN calls : CallConvert(p, Num(3 * Scale), "USD", "EUR")
    \/ \E p \in DOMAIN calls, b \in {NoCode, "EUR"} :
          CallLatestRates(p, b, <<>>, <<>>, TRUE)
    \/ CacheServiceResolves
    \/ CacheServiceRejects
    \/ \E p \in DOMAIN calls : AfterSetup(p)
    \/ \E p \in DOMAIN calls : ModelMemoized(p)
    \/ \E p \in DOMAIN calls : ModelLoaderResolves(p)
    \/ \E p \in DOMAIN calls : ModelLoaderRejects(p)
    \/ \E p \in DOMAIN calls : QueryResolves(p)
    \/ \E p \in DOMAIN calls : QueryFails(p)
    \/ \E p \in DOMAIN calls : CacheHit(p)
    \/ \E p \in DOMAIN calls : CacheMiss(p)
    \/ \E p \in DOMAIN calls : CacheMissQueryFails(p)
    \/ \E p \in DOMAIN calls : CacheThrows(p)
    \/ \E p \in DOMAIN calls : Return(p)

SpecCtor == InitCtor /\ [][NextCtor]_vars

(***************************************************************************)
(* Properties of convert and latestRates.                                  *)
(***************************************************************************)
\* A convert call that has returned.
ConvertDone(c) == c.pc = "done" /\ c.op = "convert"
\* Its input passes the validation of lines 142-160.
ValidInput(c) == GtZero(c.amount) /\ c.from # NoCode /\ c.to # NoCode
\* No dependency threw into the call.
ReadOk(c) == c.raised = <<>>
Stored(code) == Find(table, code)
HasPositiveRate(code) ==
    Stored(code) # <<>> /\ GtZero(getCurrencyRate(Stored(code)[1]))

\* C1: a convert of a positive amount from a currency to itself returns
\* success, result = amount and info.rate = 1, and the call has used none of
\* the model loader, the cache setup, the cache or a query, whatever the table.
SameCurrencyIdentity ==
    \A p \in DOMAIN calls :
        LET c == calls[p]
        IN  (ConvertDone(c) /\ ValidInput(c) /\ c.from = c.to) =>
                /\ c.ret.success
                /\ c.ret.result = c.amount
                /\ c.ret.info.rate = One
                /\ c.touched = {}

\* C1 witness: a same-currency convert has returned on a provider whose
\* table holds no record of that currency.
SameCurrencyReturned ==
    \E p \in DOMAIN calls :
        /\ ConvertDone(calls[p]) /\ ValidInput(calls[p])
        /\ calls[p].from = "EUR" /\ calls[p].to = "EUR"
        /\ Stored("EUR") = <<>>
        /\ calls[p].ret.success

\* C2 (as stated): whenever both records exist with positive rates and the
\* read succeeds, convert succeeds with info.rate = rate(to) / rate(from) and
\* result = amount * info.rate.
CrossRateIsQuotient ==
    \A p \in DOMAIN calls :
        LET c == calls[p]
        IN  (/\ ConvertDone(c) /\ ValidInput(c) /\ c.from # c.to /\ ReadOk(c)
             /\ HasPositiveRate(c.from) /\ HasPositiveRate(c.to)) =>
                /\ c.ret.success
                /\ c.ret.info.rate =
                       JsDiv(getCurrencyRate(Stored(c.to)[1]),
                             getCurrencyRate(Stored(c.from)[1]))
                /\ c.ret.result = JsMul(c.amount, c.ret.info.rate)

\* C3 (as stated): a convert from the base currency to another currency
\* whose record has a positive rate succeeds with info.rate = the stored rate
\* of `to`, whether the base currency has a record (of rate 1.0) or none.
BaseFromUsesStoredRate ==
    \A p \in DOMAIN calls :
        LET c == calls[p]
        IN  (/\ ConvertDone(c) /\ ValidInput(c) /\ ReadOk(c)
             /\ c.from = base /\ c.to # base /\ HasPositiveRate(c.to)
             /\ (Stored(base) = <<>> \/ getCurrencyRate(Stored(base)[1]) = One)) =>
                /\ c.ret.success
                /\ c.ret.info.rate = getCurrencyRate(Stored(c.to)[1])

\* C4: a convert whose amount is absent or <= 0, or whose from or to is
\* missing, returns a failure envelope with an error and has used none of the
\* model loader, the cache setup, the cache or a query.
InvalidInputNoStorage ==
    \A p \in DOMAIN calls :
        LET c == calls[p]
        IN  (ConvertDone(c) /\ ~ValidInput(c)) =>
                /\ ~c.ret.success
                /\ c.ret.error.present
                /\ c.ret.error.info # <<>>
                /\ c.touched = {}

\* C4 witness: a convert of a negative amount between two stored currencies
\* has returned.
NegativeAmountReturned ==
    \E p \in DOMAIN calls :
        /\ ConvertDone(calls[p])
        /\ calls[p].amount = Num(-3 * Scale)
        /\ calls[p].from = "EUR" /\ calls[p].to = "GBP"
        /\ HasPositiveRate("EUR") /\ HasPositiveRate("GBP")

\* C5: for valid input with from # to, when the table lacks the record of
\* from or of to and the read succeeds, convert returns a failure whose
\* error.info names one of the two codes, and that code has no record.
MissingCurrencyNamed ==
    \A p \in DOMAIN calls :
        LET c == calls[p]
        IN  (/\ ConvertDone(c) /\ ValidInput(c) /\ c.from # c.to /\ ReadOk(c)
             /\ (Stored(c.from) = <<>> \/ Stored(c.to) = <<>>)) =>
                /\ ~c.ret.success
                /\ c.ret.error.present
                /\ Len(c.ret.error.info) = 2
                /\ c.ret.error.info[1] = "Currency not found: "
                /\ c.ret.error.info[2] \in {c.from, c.to}
                /\ Stored(c.ret.error.info[2]) = <<>>

\* C5 witness: a convert whose from has a record and whose to has none has
\* returned, read through the cache.
MissingToReturned ==
    \E p \in DOMAIN calls :
        /\ ConvertDone(calls[p]) /\ ValidInput(calls[p]) /\ ReadOk(calls[p])
        /\ calls[p].from = "EUR" /\ calls[p].to = "GBP"
        /\ Stored("EUR") # <<>> /\ Stored("GBP") = <<>>
        /\ "cacheRead" \in calls[p].touched

\* C6: a convert between two stored currencies whose from rate is 0 returns
\* a failure with the invalid-rates error (when the read succeeds), and no
\* convert envelope carries Infinity or NaN in result or in info.rate.
ZeroFromRateGuarded ==
    \A p \in DOMAIN calls :
        LET c == calls[p]
        IN  ConvertDone(c) =>
                /\ c.ret.result.k \notin {"Infinity", "NaN"}
                /\ c.ret.info.rate.k \notin {"Infinity", "NaN"}
                /\ (/\ ValidInput(c) /\ c.from # c.to /\ ReadOk(c)
                    /\ Stored(c.from) # <<>> /\ Stored(c.to) # <<>>
                    /\ getCurrencyRate(Stored(c.from)[1]) = Num(0)) =>
                        /\ ~c.ret.success
                        /\ c.ret.error.info =
                               <<"Invalid exchange rates found in database">>

\* C6 witness: a cross-rate convert from a currency whose stored rate is 0
\* has returned.
ZeroFromRateReturned ==
    \E p \in DOMAIN calls :
        /\ ConvertDone(calls[p]) /\ ValidInput(calls[p]) /\ ReadOk(calls[p])
        /\ calls[p].from = "EUR" /\ calls[p].to = "GBP"
        /\ Stored("EUR") # <<>> /\ HasPositiveRate("GBP")
        /\ getCurrencyRate(Stored("EUR")[1]) = Num(0)

\* C7 (as stated): a stored rate that is zero or negative (or null) for
\* either currency makes convert fail, and no successful convert between two
\* different currencies has a zero or negative info.rate.
NonPositiveRateRejected ==
    \A p \in DOMAIN calls :
        LET c == calls[p]
        IN  (ConvertDone(c) /\ ValidInput(c) /\ c.from # c.to /\ ReadOk(c)) =>
                /\ c.ret.success => GtZero(c.ret.info.rate)
                /\ (/\ Stored(c.from) # <<>> /\ Stored(c.to) # <<>>
                    /\ \/ LeqZero(getCurrencyRate(Stored(c.from)[1]))
                       \/ LeqZero(getCurrencyRate(Stored(c.to)[1]))) =>
                        ~c.ret.success

ConvertFields == {"success", "query", "info", "date", "result", "error"}
RatesFields == {"success", "timestamp", "date", "base", "rates", "error"}

\* C8: every convert or latestRates call that has ended has returned an
\* envelope of its result type, and a call into which the model loader or a
\* query threw has returned success = false with error.info = the message of
\* that error.
FailuresBecomeEnvelopes ==
    \A p \in DOMAIN calls :
        LET c == calls[p]
        IN  (c.pc = "done" /\ c.op \in {"convert", "latestRates"}) =>
                /\ DOMAIN c.ret =
                       IF c.op = "convert" THEN ConvertFields ELSE RatesFields
                /\ c.ret.success \in BOOLEAN
                /\ (c.raised # <<>> /\ c.raised[1] \in {ModelLoadMessage, QueryMessage}) =>
                        /\ ~c.ret.success
                        /\ c.ret.error.present
                        /\ c.ret.error.info = c.raised[1]

\* C8 witness: a convert whose model loader rejected has returned.
LoaderRejectionReturned ==
    \E p \in DOMAIN calls :
        /\ ConvertDone(calls[p]) /\ ValidInput(calls[p])
        /\ calls[p].raised = <<ModelLoadMessage>>
        /\ ~model

\* C9 (as stated): a convert or latestRates call into whose cache read the
\* cache backend threw returns what a direct read of the storage gives.
CacheErrorIsMiss ==
    \A p \in DOMAIN calls :
        LET c == calls[p]
        IN  (c.pc = "done" /\ c.op \in {"convert", "latestRates"}
                /\ c.raised = <<CacheMessage>>) =>
                c.ret = Finish(c, RunQuery(c))

\* The cache setup has run and failed: the service loader rejected.
SetupFailed == cacheConfigured /\ cacheSetupPromise = "resolved" /\ ~cache

\* C10: once the cache setup has failed, a call awaiting it goes on, no call
\* reads through the cache or gets the failure as its error, and every call
\* whose read succeeds returns what the direct read of the storage gives.
SetupFailureDegrades ==
    SetupFailed =>
        \A p \in DOMAIN calls :
            LET c == calls[p]
            IN  /\ c.pc # "awaitCache"
                /\ "cacheRead" \notin c.touched
                /\ c.raised # <<CacheMessage>>
                /\ c.pc = "awaitSetup" => ENABLED AfterSetup(p)
                /\ (c.pc = "done" /\ ReadOk(c) /\ "query" \in c.touched) =>
                        c.ret = Finish(c, RunQuery(c))

\* C10 witness: after a failed cache setup a convert between two stored
\* currencies has succeeded.
DegradedConvertSucceeded ==
    /\ SetupFailed
    /\ \E p \in DOMAIN calls :
          /\ ConvertDone(calls[p]) /\ calls[p].ret.success
          /\ calls[p].from # calls[p].to
          /\ "query" \in calls[p].touched
(***************************************************************************)
(* Properties of the lazy setup under concurrent calls.                    *)
(***************************************************************************)
\* The calls that have invoked the cache service loader, the model loader.
ServiceLoaderCalls == { p \in DOMAIN calls : "serviceLoader" \in calls[p].touched }
ModelLoaderCalls == { p \in DOMAIN calls : "modelLoader" \in calls[p].touched }
\* The calls that have gone into #ensureCacheSetup.
SetupCalls == { p \in DOMAIN calls : "cacheSetup" \in calls[p].touched }

\* C11: on a provider with cache configured, once a call has gone into the
\* cache setup the cache service loader has been invoked exactly once,
\* whatever the interleaving, and while that setup is in flight every call
\* that has gone into it is waiting for it and cannot go on.
SetupIsSingleFlight ==
    (cacheConfigured /\ SetupCalls # {}) =>
        /\ Cardinality(ServiceLoaderCalls) = 1
        /\ cacheSetupPromise = "pending" =>
               \A p \in SetupCalls :
                   calls[p].pc = "awaitSetup" /\ ~ENABLED AfterSetup(p)

\* C11 witness: two calls wait for the one setup in flight.
TwoCallsAwaitSetup ==
    /\ cacheConfigured
    /\ cacheSetupPromise = "pending"
    /\ Cardinality(SetupCalls) = 2
    /\ \A p \in SetupCalls : calls[p].pc = "awaitSetup"
    /\ { calls[p].op : p \in SetupCalls } = {"convert", "getConvertRate"}

\* C12 (as stated): without hot reload the configured model loader is
\* invoked by at most one call, whatever the interleaving of the calls.
ModelLoadedOnce == ~hot => Cardinality(ModelLoaderCalls) <= 1

(***************************************************************************)
(* Properties of the cached reads, latestRates and getConvertRate.         *)
(***************************************************************************)
\* The outputs of two envelopes of the call agree: success flag, rate,
\* result or rates map, error.
SameOutputs(c, a, b) ==
    /\ a.success = b.success
    /\ a.error = b.error
    /\ IF c.op = "convert"
       THEN a.info.rate = b.info.rate /\ a.result = b.result
       ELSE a.rates = b.rates

\* What a provider without cache returns for the call, its model loader and
\* its query behaving as they did in the call.
Uncached(c) ==
    IF c.raised \in {<<ModelLoadMessage>>, <<QueryMessage>>}
    THEN Caught(c, c.raised[1])
    ELSE Finish(c, RunQuery(c))

\* C13 (as stated): every convert or latestRates call that has fetched
\* records, on a provider with cache configured or not, has returned the
\* outputs a provider without cache returns for the same input and table.
CacheIsTransparent ==
    \A p \in DOMAIN calls :
        LET c == calls[p]
        IN  (c.pc = "done" /\ c.op \in {"convert", "latestRates"}
                /\ "cacheSetup" \in c.touched) =>
                SameOutputs(c, c.ret, Uncached(c))

\* A latestRates call that has returned.
RatesDone(c) == c.pc = "done" /\ c.op = "latestRates"
\* The stored codes that have a rate, and the rate stored for a code.
RatedCodes ==
    { code \in Codes :
        Stored(code) # <<>> /\ IsNumber(getCurrencyRate(Stored(code)[1])) }
StoredRate(code) == getCurrencyRate(Stored(code)[1])
\* The codes of a filter.
FilterSet(filter) == { filter[i] : i \in DOMAIN filter }

\* C14 (as stated): a latestRates call whose params carry a non-empty
\* `symbols` list has returned a rates map of exactly the stored codes in
\* that list, each with its stored rate; one with no filter has returned a
\* rates map of every stored code.
SymbolsFilterRates ==
    \A p \in DOMAIN calls :
        LET c == calls[p]
            wanted == IF c.symbols = <<>> THEN RatedCodes
                      ELSE RatedCodes \cap FilterSet(c.symbols)
        IN  (RatesDone(c) /\ ReadOk(c) /\ c.codes = <<>>) =>
                /\ DOMAIN c.ret.rates = wanted
                /\ \A code \in wanted : c.ret.rates[code] = StoredRate(code)

\* C15: every latestRates call that has returned has success = true exactly
\* when its rates map has an entry; when it failed and nothing threw into
\* it, its error is set and says "no currencies found" exactly when the table
\* is empty, and names the codes of the filter when the table has records and
\* the call had a codes filter.
SuccessIffRates ==
    \A p \in DOMAIN calls :
        LET c == calls[p]
        IN  RatesDone(c) =>
                /\ c.ret.success <=> (DOMAIN c.ret.rates # {})
                /\ (~c.ret.success /\ ReadOk(c)) =>
                      /\ c.ret.error.present
                      /\ (table = <<>>) <=>
                            (c.ret.error.info = <<"No currencies found in database">>)
                      /\ (table # <<>> /\ c.codes # <<>>) =>
                            c.ret.error.info =
                                <<"No matching currencies found for codes: ">> \o c.codes

\* C15 witness: a latestRates call with a codes filter that matches no
\* record of a table that has records has returned.
NoMatchReturned ==
    \E p \in DOMAIN calls :
        /\ RatesDone(calls[p]) /\ ReadOk(calls[p])
        /\ table # <<>>
        /\ calls[p].codes = <<"EUR">>
        /\ Stored("EUR") = <<>>
        /\ ~calls[p].ret.success

\* What a step of a latestRates call does with the cache flag.
CacheFlagStep ==
    \A p \in DOMAIN calls :
        LET c == calls[p]
            d == calls'[p]
        IN  (c.op = "latestRates" /\ d # c) =>
              /\ (c.pc = "awaitModel" /\ d.pc # "done" /\ cache /\ cacheConfigured) =>
                    d.pc = (IF c.useCache THEN "awaitCache" ELSE "awaitQuery")
              /\ ~c.useCache =>
                    /\ store' = store
                    /\ d.pc # "awaitCache"
                    /\ "cacheRead" \notin d.touched
              /\ (c.pc = "awaitCache" /\ d.pc = "done" /\ ReadOk(d)) =>
                    IF store[ListKey] # <<>>
                    THEN /\ store' = store
                         /\ "query" \notin d.touched
                         /\ d.ret = Finish(c, store[ListKey][1])
                    ELSE /\ store' = [store EXCEPT ![ListKey] = <<table>>]
                         /\ "query" \in d.touched
                         /\ d.ret = Finish(c, table)

\* C16: in every step of a latestRates call on a provider whose cache is
\* configured and set up: with the flag true (or absent) the call goes from
\* the model to the cache read, where an unexpired entry of the full record
\* set is returned with no query and the store left as it is, and a miss
\* runs the query and stores its records under that key; with the flag false
\* the call goes to the query, never to the cache read, and its steps leave
\* the store as it is.
CacheFlagHonoured == [][CacheFlagStep]_vars

\* C16 witness: with the cache set up and an entry of the full record set
\* in the store, a latestRates call with cache: false has returned from the
\* query without a cache read.
BypassedWithEntryStored ==
    \E p \in DOMAIN calls :
        /\ RatesDone(calls[p]) /\ ReadOk(calls[p])
        /\ cacheConfigured /\ cache
        /\ store[ListKey] # <<>>
        /\ ~calls[p].useCache
        /\ "query" \in calls[p].touched
        /\ "cacheRead" \notin calls[p].touched

\* The codes a latestRates call includes: the stored codes with a rate that
\* pass its codes filter.
IncludedCodes(c) ==
    IF c.codes = <<>> THEN RatedCodes ELSE RatedCodes \cap FilterSet(c.codes)
\* The update times of the included records that have one.
IncludedTimes(c) ==
    { getCurrencyUpdatedAt(Stored(code)[1]) : code \in IncludedCodes(c) } \ {0}

\* C17: every latestRates call that has returned without an exception
\* carries as timestamp and date the greatest update time of the records
\* it has included when one of them has an update time, and the time of the
\* call when none has.
TimestampIsLatestIncluded ==
    \A p \in DOMAIN calls :
        LET c == calls[p]
            times == IncludedTimes(c)
        IN  (RatesDone(c) /\ ReadOk(c)) =>
                /\ c.ret.date = c.ret.timestamp
                /\ c.ret.timestamp =
                      IF times = {} THEN TimeNow
                      ELSE TimeAt(CHOOSE t \in times : \A u \in times : u <= t)

\* C17 witness: a call whose filter leaves out the record updated last has
\* returned with the update time of the records it includes.
LatestAmongIncludedReturned ==
    \E p \in DOMAIN calls :
        /\ RatesDone(calls[p]) /\ ReadOk(calls[p])
        /\ calls[p].codes = <<"GBP", "USD">>
        /\ Stored("EUR") # <<>> /\ getCurrencyUpdatedAt(Stored("EUR")[1]) = 2
        /\ IncludedTimes(calls[p]) = {1}
        /\ calls[p].ret.timestamp = TimeAt(1)

\* A getConvertRate call that has returned.
RateDone(c) == c.pc = "done" /\ c.op = "getConvertRate"
\* What convert returns for the input on the table, nothing throwing into it.
ConvertOf(amount, from, to) ==
    LET early == ConvertEarly(amount, from, to)
    IN  IF early # <<>> THEN early[1]
        ELSE ConvertFromRows(amount, from, to, WhereIn(table, <<from, to>>))

\* C18 (as stated): a getConvertRate call that has returned without an
\* exception has returned the info.rate of the convert of a positive amount
\* between the same two codes on the same table when that convert succeeds,
\* and undefined when it fails.
RateAgreesWithConvert ==
    \A p \in DOMAIN calls :
        LET c == calls[p]
            conv == ConvertOf(Num(3 * Scale), c.from, c.to)
        IN  (RateDone(c) /\ ReadOk(c)) =>
                c.ret = IF conv.success THEN conv.info.rate ELSE Undefined

\* C19: every getConvertRate call that has ended has returned a number or
\* undefined, never an envelope, and one into which the model loader, the
\* query or the cache backend threw has returned undefined.
RateIsNumberOrUndefined ==
    \A p \in DOMAIN calls :
        LET c == calls[p]
        IN  RateDone(c) =>
                /\ DOMAIN c.ret = DOMAIN Undefined
                /\ c.ret.k \in {"number", "undefined"}
                /\ c.raised # <<>> => c.ret = Undefined

\* C19 witness: a getConvertRate call between two currencies with positive
\* rates, into which the cache backend threw, has returned undefined.
RateReturnedAfterCacheError ==
    \E p \in DOMAIN calls :
        /\ RateDone(calls[p])
        /\ calls[p].raised = <<CacheMessage>>
        /\ HasPositiveRate(calls[p].from) /\ HasPositiveRate(calls[p].to)
        /\ calls[p].ret = Undefined

\* The lazy state of the cache of a provider with cache configured.
LazyState ==
    IF cacheSetupPromise = "none" THEN "Unconfigured"
    ELSE IF cacheSetupPromise = "pending" THEN "SettingUp"
    ELSE IF cache THEN "Enabled" ELSE "Disabled"

\* The steps of the lazy state: none out of Enabled or Disabled.
LazySteps ==
    { <<"Unconfigured", "SettingUp">>,
      <<"SettingUp", "Enabled">>, <<"SettingUp", "Disabled">> }

\* What a step does to the lazy state, and to a failed setup.
LazyStateStep ==
    cacheConfigured =>
        /\ LazyState' # LazyState => <<LazyState, LazyState'>> \in LazySteps
        /\ SetupFailed =>
              /\ SetupFailed'
              /\ \A p \in DOMAIN calls :
                    "serviceLoader" \in calls'[p].touched =>
                        "serviceLoader" \in calls[p].touched

ReadOnlyStep ==
    /\ table' = table
    /\ base' = base
    /\ cacheConfigured' = cacheConfigured
    /\ configModel' = configModel

\* C21: no step of a convert, latestRates, getConvertRate, clearCache,
\* refreshCurrencyData or cleanup call, in any sequence and interleaving,
\* changes the stored records, the base currency or the configuration.
ProviderIsReadOnly == [][ReadOnlyStep]_vars

\* C21 witness: a refreshCurrencyData that deleted and rewrote the cache
\* entry and a cleanup have completed, with the records still in the table.
RefreshAndCleanupCompleted ==
    \E p \in DOMAIN calls, q \in DOMAIN calls :
        /\ calls[p].pc = "done" /\ calls[p].op = "refreshCurrencyData"
        /\ calls[p].ret = Void
        /\ {"cacheDelete", "query"} \subseteq calls[p].touched
        /\ calls[q].pc = "done" /\ calls[q].op = "cleanup"
        /\ table # <<>>

\* What the call returns when it runs alone on the table, its dependencies
\* behaving as they did in the call.
Alone(c) ==
    IF c.raised # <<>> THEN Caught(c, c.raised[1]) ELSE Finish(c, RunQuery(c))

\* C22: whatever the interleaving of two convert or latestRates calls in
\* flight on one provider, with cache configured or not, each call that has
\* fetched records has returned what it returns when it runs alone.
CallsAreOrderIndependent ==
    \A p \in DOMAIN calls :
        LET c == calls[p]
        IN  (c.pc = "done" /\ c.op \in {"convert", "latestRates"}
                /\ "cacheSetup" \in c.touched) =>
                c.ret = Alone(c)

\* C22 witness: two converts of different pairs were in flight together
\* with the cache set up, the one that read the cache second has returned.
InterleavedConvertsReturned ==
    \E p \in DOMAIN calls, q \in DOMAIN calls :
        /\ p # q /\ cache
        /\ ConvertDone(calls[p]) /\ ConvertDone(calls[q])
        /\ calls[p].to # calls[q].to
        /\ ReadOk(calls[p]) /\ ReadOk(calls[q])
        /\ "cacheRead" \in calls[p].touched /\ "cacheRead" \in calls[q].touched
        /\ calls[p].ret.success /\ calls[q].ret.success

\* C23: a provider constructed from a configuration without a model loader
\* has thrown at construction, by the constructor and by the helper alike,
\* so every instance has a model loader and no call on an instance has
\* failed because the model is not configured.
MisconfigurationFailsFast ==
    /\ (constructed # "no" /\ ~configModel) => constructed = "threw"
    /\ \A p \in DOMAIN calls :
           /\ calls[p].pc # "idle" => (constructed = "yes" /\ configModel)
           /\ calls[p].raised # <<ModelNotConfiguredMessage>>

\* C23 witness: the construction without a model loader has thrown.
ConstructionThrew == constructed = "threw" /\ ~configModel /\ ~cacheConfigured

\* ---------------------------------------------------------------------
\* DatabaseProvider with healthCheck: the constructor starts loadModel
\* without awaiting it, getModel throws while this.model is null.
\* ---------------------------------------------------------------------

\* The last reading of Date.now() the model follows.
MaxClock == 2

ModelNotLoadedMessage ==
    <<"Currency model not loaded. Make sure the model is properly configured.">>
FailedToLoadMessage == <<"Failed to load currency model">>

\* The two shapes of a HealthCheckResult.
Healthy(latency) == [healthy |-> TRUE, latency |-> latency]
Unhealthy(message) == [healthy |-> FALSE, error |-> message]

\* Latency with the two readings of the clock exchanged.
LatencyReversed(startTime) == startTime - now

\* Date.now() - startTime.
Latency(startTime) == now - startTime

\* The constructor's loadModel, whose promise nothing awaits.
LoadingModel ==
    [Idle EXCEPT !.op = "loadModel", !.pc = "awaitModel", !.loader = TRUE,
                 !.touched = {"modelLoader"}]

\* The loader resolves: this.model is set.
LoadModelResolves(p) ==
    /\ calls[p].op = "loadModel"
    /\ calls[p].pc = "awaitModel"
    /\ model' = TRUE
    /\ calls' = [calls EXCEPT ![p] = Done(@, Void)]
    /\ UNCHANGED <<frame, hist, cache, cacheSetupPromise, store>>

\* The loader rejects: loadModel rethrows and this.model stays null.
LoadModelRejects(p) ==
    /\ calls[p].op = "loadModel"
    /\ calls[p].pc = "awaitModel"
    /\ calls' = [calls EXCEPT ![p] =
           [@ EXCEPT !.pc = "done", !.raised = <<ModelLoadMessage>>,
                     !.ret = Thrown(FailedToLoadMessage)]]
    /\ UNCHANGED <<frame, hist, model, cache, cacheSetupPromise, store>>

\* healthCheck up to its first suspension: it reads the clock and calls
\* getModel, which throws into the catch block while the model is null;
\* with the model it issues the limit-1 query.
CallHealthCheck(p) ==
    /\ calls[p].pc = "idle"
    /\ calls' = [calls EXCEPT ![p] =
           IF ~model
           THEN [@ EXCEPT !.op = "healthCheck", !.pc = "done", !.startTime = now,
                          !.touched = {"getModel"},
                          !.raised = <<ModelNotLoadedMessage>>,
                          !.ret = Unhealthy(ModelNotLoadedMessage)]
           ELSE [@ EXCEPT !.op = "healthCheck", !.pc = "awaitQuery",
                          !.startTime = now, !.touched = {"getModel", "query"}]]
    /\ UNCHANGED <<frame, hist, model, cache, cacheSetupPromise, store>>

\* The limit-1 query resolves: healthy, with the time elapsed.
HealthQueryResolves(p) ==
    /\ calls[p].op = "healthCheck"
    /\ calls[p].pc = "awaitQuery"
    /\ calls' = [calls EXCEPT ![p] = Done(@, Healthy(Latency(@.startTime)))]
    /\ UNCHANGED <<frame, hist, model, cache, cacheSetupPromise, store>>

\* The limit-1 query rejects: the catch block answers with its message.
HealthQueryFails(p) ==
    /\ calls[p].op = "healthCheck"
    /\ calls[p].pc = "awaitQuery"
    /\ calls' = [calls EXCEPT ![p] =
           [@ EXCEPT !.pc = "done", !.raised = <<QueryMessage>>,
                     !.ret = Unhealthy(QueryMessage)]]
    /\ UNCHANGED <<frame, hist, model, cache, cacheSetupPromise, store>>

\* Time passes: the next reading of Date.now() is later.
Tick ==
    /\ now < MaxClock
    /\ now' = now + 1
    /\ UNCHANGED <<table, cacheConfigured, hot, base, constructed, configModel,
                   hist, model, cache, cacheSetupPromise, store, calls>>

ProcsHealth == {"ctor", "p1", "p2"}

\* The provider after new DatabaseProvider(config): loadModel in flight.
InitHealth ==
    /\ table \in TablesConc
    /\ cacheConfigured = FALSE
    /\ hot = FALSE
    /\ base = "USD"
    /\ model = FALSE
    /\ cache = FALSE
    /\ cacheSetupPromise = "none"
    /\ store = [k \in Keys |-> <<>>]
    /\ calls = [p \in ProcsHealth |-> IF p = "ctor" THEN LoadingModel ELSE Idle]
    /\ constructed = "yes"
    /\ configModel \in BOOLEAN
    /\ now = 0
    /\ cleaned = FALSE
    /\ refreshed = FALSE

NextHealth ==
    \/ \E p \in ProcsHealth : configModel /\ LoadModelResolves(p)
    \/ \E p \in ProcsHealth : LoadModelRejects(p)
    \/ \E p \in ProcsHealth \ {"ctor"} : CallHealthCheck(p)
    \/ \E p \in ProcsHealth : HealthQueryResolves(p)
    \/ \E p \in ProcsHealth : HealthQueryFails(p)
    \/ Tick
    \/ \E p \in ProcsHealth \ {"ctor"} : Return(p)

SpecHealth == InitHealth /\ [][NextHealth]_vars

\* C24: healthCheck never throws; it returns healthy = true with a
\* non-negative latency exactly when the model was loaded and the limit-1
\* read succeeded, and otherwise healthy = false with error set to the
\* message of the error thrown.
HealthCheckReports ==
    \A p \in DOMAIN calls :
        LET c == calls[p] IN
        c.op = "healthCheck" =>
            /\ "query" \in c.touched => model
            /\ c.pc = "done" =>
                /\ c.ret \in {Healthy(l) : l \in 0..MaxClock}
                       \cup {Unhealthy(m) : m \in {ModelNotLoadedMessage, QueryMessage}}
                /\ c.ret.healthy = ("query" \in c.touched /\ c.raised = <<>>)
                /\ c.ret.healthy => c.ret.latency <= now
                /\ "query" \notin c.touched => c.raised = <<ModelNotLoadedMessage>>
                /\ ~c.ret.healthy => c.ret.error = c.raised[1]

\* C24 witness: one health check has answered healthy after the clock
\* moved, another unhealthy with the message of the failed read.
HealthyAndUnhealthyReturned ==
    \E p, q \in DOMAIN calls :
        /\ calls[p].op = "healthCheck" /\ calls[p].pc = "done"
        /\ calls[p].ret = Healthy(1)
        /\ calls[q].op = "healthCheck" /\ calls[q].pc = "done"
        /\ calls[q].ret = Unhealthy(QueryMessage)

\* ---------------------------------------------------------------------
\* Properties of the by-codes cache key, refreshCurrencyData, the failure
\* envelopes, the model loader and cleanup
\* ---------------------------------------------------------------------

\* The entry that a successful convert(to, from) of the call's two codes in
\* the other order has left: both records, with positive rates.
ReverseEntry(c) == store[CacheKey(<<c.to, c.from>>)]
ReversePopulated(c) ==
    /\ ReverseEntry(c) # <<>>
    /\ Find(ReverseEntry(c)[1], c.from) # <<>>
    /\ Find(ReverseEntry(c)[1], c.to) # <<>>
    /\ HasPositiveRate(c.from) /\ HasPositiveRate(c.to)

\* A convert of two different codes reads the cache while the entry of the
\* same codes in the other order is there: it takes no record from the
\* storage, leaves the entry as it is and succeeds with rate(to) / rate(from).
OrderFreeKeyStep ==
    \A p \in DOMAIN calls :
        LET c == calls[p]
            d == calls'[p]
        IN  (/\ c.op = "convert" /\ c.pc = "awaitCache" /\ c.from # c.to
             /\ ReversePopulated(c)
             /\ d.pc = "done" /\ d.raised = <<>>) =>
                /\ "query" \notin d.touched
                /\ store' = store
                /\ d.ret.success
                /\ d.ret.info.rate =
                       JsDiv(getCurrencyRate(Find(ReverseEntry(c)[1], c.to)[1]),
                             getCurrencyRate(Find(ReverseEntry(c)[1], c.from)[1]))

\* C25 (as stated): the by-codes cache key depends only on the sorted set
\* of the codes: after a successful convert(A, B) has populated the entry,
\* a convert(B, A) made while the entry is unexpired is served from that
\* entry with no storage read, and returns rate(A) / rate(B).
OrderFreeKeyServesQuotient ==
    [][(\A a \in Codes, b \in Codes : CacheKey(<<a, b>>) = CacheKey(<<b, a>>))
       /\ OrderFreeKeyStep]_vars

\* C26 (as stated): after refreshCurrencyData has completed on a provider
\* with cache configured, every later convert or latestRates call whose read
\* succeeds returns what a direct read of the storage gives: no cache entry
\* written before the refresh is served to it.
RefreshServesStorage ==
    \A p \in DOMAIN calls :
        LET c == calls[p]
        IN  (/\ c.pc = "done" /\ c.op \in {"convert", "latestRates"}
             /\ cacheConfigured /\ c.afterRefresh /\ ReadOk(c)) =>
                SameOutputs(c, c.ret, Finish(c, RunQuery(c)))

\* C27 (as stated): every envelope convert returns with success = false
\* carries no conversion output: neither a result value nor info.rate.
FailureCarriesNoOutput ==
    \A p \in DOMAIN calls :
        LET c == calls[p]
        IN  (ConvertDone(c) /\ ~c.ret.success) =>
                /\ c.ret.result = Undefined
                /\ c.ret.info.rate = Undefined

\* The call has failed because the model loader rejected.
LoadFailed(c) ==
    /\ c.pc = "done" /\ c.op \in {"convert", "latestRates"}
    /\ c.raised = <<ModelLoadMessage>>
\* The call is past getModel with a model in hand.
HoldsModel(c) == c.pc \in {"awaitQuery", "awaitCache", "done"} /\ ~LoadFailed(c)

\* C28: a failed model load is not memoized: once a convert or latestRates
\* call has returned a failure because the loader rejected, the model is
\* unset unless the other call has loaded it, the other call invokes the
\* loader when it reaches getModel, and with the loader resolving it returns
\* what the records of the table give.
FailedLoadNotMemoized ==
    \A p \in DOMAIN calls, q \in DOMAIN calls :
        (p # q /\ LoadFailed(calls[p])) =>
            LET c == calls[p]
                d == calls[q]
            IN  /\ ~c.ret.success
                /\ model => ("modelLoader" \in d.touched /\ HoldsModel(d))
                /\ "getModel" \in d.touched => "modelLoader" \in d.touched
                /\ (d.pc = "done" /\ d.op \in {"convert", "latestRates"}
                        /\ ReadOk(d)) =>
                       SameOutputs(d, d.ret, Finish(d, RunQuery(d)))

\* C28 witness: without hot reload one call has failed on the rejected
\* loader and the other, having invoked the loader itself, has succeeded.
LoadedAfterFailedLoad ==
    \E p \in DOMAIN calls, q \in DOMAIN calls :
        /\ ~hot /\ LoadFailed(calls[p])
        /\ calls[q].pc = "done" /\ calls[q].op = "convert"
        /\ "modelLoader" \in calls[q].touched
        /\ calls[q].ret.success

\* C29 (as stated): cleanup returns the provider to its initial state: once
\* it has completed, the model, the cache handle and the setup promise are
\* cleared; the next convert or latestRates call invokes the model loader
\* and, with cache configured, the cache service loader, and returns what a
\* fresh instance returns; a convert in flight during a cleanup never throws.
CleanupRestoresInitialState ==
    /\ cleaned => (~model /\ ~cache /\ cacheSetupPromise = "none")
    /\ \A p \in DOMAIN calls :
           LET c == calls[p]
           IN  /\ (c.op \in {"convert", "latestRates"} /\ c.afterCleanup) =>
                     /\ cacheConfigured => "serviceLoader" \in c.touched
                     /\ "getModel" \in c.touched => "modelLoader" \in c.touched
                     /\ (c.pc = "done" /\ "query" \in c.touched /\ ReadOk(c)) =>
                            SameOutputs(c, c.ret, Finish(c, RunQuery(c)))
               /\ ConvertDone(c) => "success" \in DOMAIN c.ret

\* C30: the rates map of latestRates does not depend on the base argument:
\* every call that has returned echoes the base asked for, or the configured
\* base when none was given, and when nothing threw into it its map holds
\* the included codes with their stored rates, not re-based.
RatesIgnoreBase ==
    \A p \in DOMAIN calls :
        LET c == calls[p]
        IN  RatesDone(c) =>
                /\ c.ret.base = (IF c.baseArg = NoCode THEN base ELSE c.baseArg)
                /\ ReadOk(c) =>
                      /\ DOMAIN c.ret.rates = IncludedCodes(c)
                      /\ \A code \in IncludedCodes(c) :
                             c.ret.rates[code] = StoredRate(code)
                      /\ c.ret.rates =
                             LatestFromRows(NoCode, c.codes, table).rates

\* C30 witness: a call with a base other than the configured one has
\* returned that base with the rate of the base currency as stored, not 1.
OtherBaseReturned ==
    \E p \in DOMAIN calls :
        /\ RatesDone(calls[p]) /\ ReadOk(calls[p])
        /\ calls[p].baseArg = "EUR" /\ base # "EUR"
        /\ calls[p].ret.success
        /\ calls[p].ret.base = "EUR"
        /\ "EUR" \in DOMAIN calls[p].ret.rates
        /\ calls[p].ret.rates["EUR"] # One
        /\ "USD" \in DOMAIN calls[p].ret.rates

====
